---------------------------- MODULE Spec2Model ----------------------------
(***************************************************************************)
(* Model of the linkshelf catalog scripts:                                 *)
(*   .github/scripts/update-readme.py      (index regeneration)            *)
(*   .github/scripts/validate_articles.py  (validation gate)               *)
(*                                                                         *)
(* TEXT.  A Python string is modelled as a sequence of lexemes; the        *)
(* string is the concatenation of the lexemes.  A lexeme is either a       *)
(* single character ("#", "[", "-", "2", " ", "\n", ...) or one of the     *)
(* multi-character units listed below, which the texts of the model only   *)
(* ever contain as whole units:                                            *)
(*   - the two section markers of README.md,                               *)
(*   - the bold labels "**Author:**", "**Date:**", "**Added by:**",        *)
(*     "**Added on:**", "**Tags:**", "**Summary:**", "**Key Insights:**",  *)
(*   - words made of [A-Za-z0-9_] only ("Summary", "Key", "golang", ...),  *)
(*   - "http://x" and "ftp://x" (link targets), ".md" (file suffix),       *)
(*   - the fixed phrases the renderers and the validator emit.             *)
(* Only the lexeme "#" and the two markers contain the character '#', only *)
(* "\n" contains a line break, and no literal of a pattern of the scripts  *)
(* can straddle a lexeme boundary, so each regular expression below is     *)
(* evaluated on lexemes exactly as Python evaluates it on characters.      *)
(* The texts contain no '\r' and no backslash.                             *)
(***************************************************************************)
EXTENDS Integers, Sequences, FiniteSets, TLC

VARIABLES
    pc,                  \* where the running script is
    doc, doc_path,  \* one document: its text and its storage path
    record, verdict,     \* what extraction and validation returned for it
    readme,              \* the text of README.md
    sections,            \* the two rendered blocks handed to update_readme_file
    outcome,             \* what the regeneration run reported
    written,             \* the texts README.md has held, oldest first
    idx,                 \* how many files of the listing have been processed
    collected,            \* main's list of extracted records
    stats,               \* what generate_statistics computed
    clock,                 \* the time datetime.now() reads
    changed_files,       \* the paths get_changed_files returned
    article_files,       \* validate main: the paths left after filtering
    error_count,         \* validate main: the running total
    reports,             \* validate main: the error list reported for each file
    exit_code,           \* validate main: the value handed to sys.exit
    tree,                \* the catalog tree: the text of each document
    pads_year            \* whether the C library's strftime writes %Y with four digits

vars ==
    <<pc, doc, doc_path, record, verdict, readme, sections, outcome, written,
      idx, collected, stats, clock, changed_files, article_files, error_count,
      reports, exit_code, tree, pads_year>>

(***************************************************************************)
(* Constants of update-readme.py                                           *)
(***************************************************************************)
RECENT_ARTICLES_COUNT == 5
RECENT_ARTICLES_MARKER == "## Recently Added Articles"
STATISTICS_MARKER == "## Statistics"

\* generate_statistics: the slices [:5], [:5] and [:10]
TopTopicsCount == 5
TopContributorsCount == 5
TopTagsCount == 10

(***************************************************************************)
(* Characters and character classes                                        *)
(***************************************************************************)
Digits == {"0", "1", "2", "3", "4", "5", "6", "7", "8", "9"}

DigitChars == <<"0", "1", "2", "3", "4", "5", "6", "7", "8", "9">>

\* int(c) for a digit character
DigitVal(c) == CHOOSE n \in 0..9 : DigitChars[n + 1] = c

\* the words of the model's texts: lexemes made of [A-Za-z0-9_] only
Words ==
    {"Summary", "Key", "Insights", "golang", "rust", "T", "Notes", "s", "k",
     "alice", "bob", "Jan", "x", "a", "b"}
    \cup {"t1", "t2", "t3", "t4", "t5", "t6", "t7", "t8", "t9"}
    \cup {"u1", "u2", "u3", "u4", "u5", "u6", "u7", "u8", "u9"}
    \cup {"g1", "g2", "g3", "g4", "g5", "g6", "g7", "g8", "g9", "g10",
          "g11", "g12", "g13", "g14", "g15", "g16", "g17", "g18"}

\* regex \s
IsSpace(c) == c \in {" ", "\n"}

\* regex [\n\r]; also the one character '.' does not match without DOTALL
IsNewline(c) == c = "\n"

\* regex [\w-] : the lexeme consists of word characters or hyphens
IsWordChar(c) == c \in Digits \/ c \in Words \/ c = "-"

\* whether the lexeme's first character is '#'
StartsWithHash(c) == c \in {"#", RECENT_ARTICLES_MARKER, STATISTICS_MARKER}

(***************************************************************************)
(* String helpers                                                          *)
(***************************************************************************)
\* the smallest element of a non-empty set of integers
Least(S) == CHOOSE n \in S : \A m \in S : n <= m

\* the largest element of a non-empty set of integers
Greatest(S) == CHOOSE n \in S : \A m \in S : m <= n

\* s[a..b] (1-based, inclusive), empty when b < a
Slice(s, a, b) == IF b < a THEN <<>> ELSE SubSeq(s, a, b)

\* str.strip()
Strip(s) ==
    LET keep == {i \in 1..Len(s) : ~IsSpace(s[i])}
    IN IF keep = {} THEN <<>> ELSE Slice(s, Least(keep), Greatest(keep))

\* str.split(sep) for a one-character separator: the pieces, in order
RECURSIVE SplitFrom(_, _, _)
SplitFrom(s, sep, from) ==
    LET hits == {i \in from..Len(s) : s[i] = sep}
    IN IF hits = {}
       THEN <<Slice(s, from, Len(s))>>
       ELSE <<Slice(s, from, Least(hits) - 1)>> \o SplitFrom(s, sep, Least(hits) + 1)

Split(s, sep) == SplitFrom(s, sep, 1)

\* sep.join(parts)
RECURSIVE Join(_, _)
Join(parts, sep) ==
    IF Len(parts) = 0 THEN <<>>
    ELSE IF Len(parts) = 1 THEN parts[1]
    ELSE parts[1] \o <<sep>> \o Join(Tail(parts), sep)

\* whether the literal lit occurs in s at position i
OccursAt(s, lit, i) ==
    /\ i >= 1
    /\ i + Len(lit) - 1 <= Len(s)
    /\ \A j \in 1..Len(lit) : s[i + j - 1] = lit[j]

\* Python's "lit in s"
Contains(s, lit) == \E i \in 1..Len(s) : OccursAt(s, lit, i)

\* Python's s.endswith(lit)
EndsWith(s, lit) == OccursAt(s, lit, Len(s) - Len(lit) + 1)

\* str(n) for n >= 0, as decimal digits
RECURSIVE IntToStr(_)
IntToStr(n) ==
    IF n < 10 THEN <<DigitChars[n + 1]>>
    ELSE IntToStr(n \div 10) \o <<DigitChars[(n % 10) + 1]>>

\* "%02d" % n
Pad2(n) == <<DigitChars[(n \div 10) + 1], DigitChars[(n % 10) + 1]>>

\* "%04d" % n
Pad4(n) == Pad2(n \div 100) \o Pad2(n % 100)

(***************************************************************************)
(* datetime: [y, m, d, t], t the time of day in clock ticks                *)
(***************************************************************************)
IsLeap(y) == (y % 4 = 0 /\ y % 100 # 0) \/ y % 400 = 0

DaysInMonth(y, m) ==
    IF m = 2 THEN (IF IsLeap(y) THEN 29 ELSE 28)
    ELSE IF m \in {4, 6, 9, 11} THEN 30 ELSE 31

\* datetime.__lt__
DtLess(a, b) ==
    \/ a.y < b.y
    \/ a.y = b.y /\ a.m < b.m
    \/ a.y = b.y /\ a.m = b.m /\ a.d < b.d
    \/ a.y = b.y /\ a.m = b.m /\ a.d = b.d /\ a.t < b.t

\* datetime.strftime('%Y-%m-%d'): %m and %d have two digits; %Y is left to
\* the C library, which writes a year below 1000 with four digits
\* ("0999") or without leading zeros ("999")
StrfDate(dt) ==
    (IF pads_year THEN Pad4(dt.y) ELSE IntToStr(dt.y))
    \o <<"-">> \o Pad2(dt.m) \o <<"-">> \o Pad2(dt.d)

\* datetime.strptime(s, '%Y-%m-%d'): _strptime matches
\*   (\d\d\d\d)-(1[0-2]|0[1-9]|[1-9])-(3[0-1]|[1-2]\d|0[1-9]|[1-9]| [1-9])
\* at the start of s, raises ValueError when it does not match, when text
\* remains after the match, or when the date is not a calendar date.
\* [ok |-> FALSE] stands for ValueError.
Strptime(s) ==
    LET At(i) == IF i <= Len(s) THEN s[i] ELSE ""
        D(i) == At(i) \in Digits
        NZ(i) == At(i) \in Digits \ {"0"}
        yearOk == D(1) /\ D(2) /\ D(3) /\ D(4) /\ At(5) = "-"
        \* the month alternatives, in the order the regex tries them
        mLen == IF At(6) = "1" /\ At(7) \in {"0", "1", "2"} THEN 2
                ELSE IF At(6) = "0" /\ NZ(7) THEN 2
                ELSE IF NZ(6) THEN 1
                ELSE 0
        p == 6 + mLen        \* where the second '-' must be
        q == p + 1           \* where the day starts
        dLen == IF At(q) = "3" /\ At(q + 1) \in {"0", "1"} THEN 2
                ELSE IF At(q) \in {"1", "2"} /\ D(q + 1) THEN 2
                ELSE IF At(q) = "0" /\ NZ(q + 1) THEN 2
                ELSE IF NZ(q) THEN 1
                ELSE IF At(q) = " " /\ NZ(q + 1) THEN 2
                ELSE 0
        matched == yearOk /\ mLen > 0 /\ At(p) = "-" /\ dLen > 0
        Num(a, n) == IF n = 1 THEN DigitVal(At(a))
                     ELSE IF At(a) = " " THEN DigitVal(At(a + 1))
                     ELSE 10 * DigitVal(At(a)) + DigitVal(At(a + 1))
        year == 1000 * DigitVal(At(1)) + 100 * DigitVal(At(2))
                + 10 * DigitVal(At(3)) + DigitVal(At(4))
    IN IF ~matched THEN [ok |-> FALSE]
       ELSE IF q + dLen - 1 # Len(s) THEN [ok |-> FALSE]
       ELSE IF year < 1 \/ Num(q, dLen) > DaysInMonth(year, Num(6, mLen))
            THEN [ok |-> FALSE]
       ELSE [ok |-> TRUE,
             dt |-> [y |-> year, m |-> Num(6, mLen), d |-> Num(q, dLen), t |-> 0]]

(***************************************************************************)
(* The pattern table (re.search on a document's content)                   *)
(***************************************************************************)
\* r'#.*\[(.*?)\]\((.*?)\)': a '#', then on the same line (dotall: anywhere
\* after it) a link [label](target).  The link a match from the '#' at i
\* takes: '.*' is greedy, so the last '[' that starts a link; '(.*?)' is
\* lazy, so the first "](" after it that a ')' follows, and the first ')'.
NoBreak(text, a, b, dotall) ==
    dotall \/ \A n \in a..b : ~IsNewline(text[n])

LinkCloses(text, j, p, dotall) ==
    /\ text[p] = "]"
    /\ p + 1 <= Len(text)
    /\ text[p + 1] = "("
    /\ NoBreak(text, j, p, dotall)
    /\ \E q \in (p + 2)..Len(text) :
          text[q] = ")" /\ NoBreak(text, p + 1, q, dotall)

LinkStarts(text, i, j, dotall) ==
    /\ text[j] = "["
    /\ NoBreak(text, i, j, dotall)
    /\ \E p \in (j + 1)..Len(text) : LinkCloses(text, j, p, dotall)

TitleSearch(text, dotall) ==
    LET starts == {i \in 1..Len(text) :
                      /\ text[i] = "#"
                      /\ \E j \in (i + 1)..Len(text) : LinkStarts(text, i, j, dotall)}
    IN IF starts = {} THEN [found |-> FALSE]
       ELSE LET i == Least(starts)
                j == Greatest({n \in (i + 1)..Len(text) : LinkStarts(text, i, n, dotall)})
                p == Least({n \in (j + 1)..Len(text) : LinkCloses(text, j, n, dotall)})
                q == Least({n \in (p + 2)..Len(text) :
                               text[n] = ")" /\ NoBreak(text, p + 1, n, dotall)})
            IN [found |-> TRUE,
                group1 |-> Slice(text, j + 1, p - 1),
                group2 |-> Slice(text, p + 2, q - 1)]

\* label + r'\s*(.*?)[\n\r]' : the label, whitespace (greedy, line breaks
\* included), then the rest of the line the whitespace ends on, up to its
\* line break.  When no line break follows the whitespace, the regex gives
\* whitespace back up to the last line break inside it and the group is empty.
LabelSearch(text, label) ==
    LET starts == {i \in 1..Len(text) :
                      text[i] = label /\ \E n \in (i + 1)..Len(text) : IsNewline(text[n])}
    IN IF starts = {} THEN [found |-> FALSE]
       ELSE LET i == Least(starts)
                k == Least({n \in (i + 1)..(Len(text) + 1) :
                               n = Len(text) + 1 \/ ~IsSpace(text[n])})
                breaks == {n \in k..Len(text) : IsNewline(text[n])}
            IN [found |-> TRUE,
                group1 |-> IF breaks = {} THEN <<>>
                           ELSE Slice(text, k, Least(breaks) - 1)]

\* r'\*\*Tags:\*\*\s*(.*?)$' with re.MULTILINE: the label, whitespace
\* (greedy), then up to the end of the line the whitespace ends on.
TagsSearch(text) ==
    LET starts == {i \in 1..Len(text) : text[i] = "**Tags:**"}
    IN IF starts = {} THEN [found |-> FALSE]
       ELSE LET i == Least(starts)
                k == Least({n \in (i + 1)..(Len(text) + 1) :
                               n = Len(text) + 1 \/ ~IsSpace(text[n])})
                e == Least({n \in k..(Len(text) + 1) :
                               n = Len(text) + 1 \/ IsNewline(text[n])})
            IN [found |-> TRUE, group1 |-> Slice(text, k, e - 1)]

\* the positions right after a match of '##\s*' + words, or of the bold label
HeadingEnds(text, words, label) ==
    {e \in 1..(Len(text) + 1) :
        \/ e >= 2 /\ text[e - 1] = label
        \/ \E a \in 1..Len(text) :
              /\ OccursAt(text, <<"#", "#">>, a)
              /\ OccursAt(text, words, e - Len(words))
              /\ a + 2 <= e - Len(words)
              /\ \A n \in (a + 2)..(e - Len(words) - 1) : IsSpace(text[n])}

\* r'(?:##\s*W|\*\*W:\*\*)(.*?)(?:##|\*\*Next:\*\*)' with re.DOTALL
BlockSearch(text, words, label, next) ==
    \E e \in HeadingEnds(text, words, label) :
        \E r \in e..Len(text) : OccursAt(text, <<"#", "#">>, r) \/ text[r] = next

(***************************************************************************)
(* update-readme.py: extract_article_info                                  *)
(***************************************************************************)
\* the value extract_article_info returns for a file that is not an article
None == [none |-> TRUE]

\* a dict with no keys
EmptyDict == [k \in {} |-> <<>>]

\* lines 57-71: 'added_on' and 'date_obj'
DateFields(content, mod_time, now) ==
    LET added_date_match == LabelSearch(content, "**Added on:**")
        added_on == Strip(added_date_match.group1)
        parsed == Strptime(added_on)
    IN IF added_date_match.found
       THEN ("added_on" :> added_on)
            @@ ("date_obj" :> (IF parsed.ok THEN parsed.dt ELSE now))
       ELSE ("date_obj" :> mod_time) @@ ("added_on" :> StrfDate(mod_time))

\* line 87: [tag.strip() for tag in tags_str.split('#') if tag.strip()]
RECURSIVE StripNonEmpty(_)
StripNonEmpty(parts) ==
    IF Len(parts) = 0 THEN <<>>
    ELSE (IF Strip(Head(parts)) # <<>> THEN <<Strip(Head(parts))>> ELSE <<>>)
         \o StripNonEmpty(Tail(parts))

\* a variant that keeps only what follows a '#'
ParseTagsAfterHash(tags_str) == StripNonEmpty(Tail(Split(tags_str, "#")))

ParseTags(tags_str) == StripNonEmpty(Split(tags_str, "#"))

\* lines 83-87: 'tags'
TagFields(content) ==
    LET tags_match == TagsSearch(content)
    IN IF tags_match.found
       THEN "tags" :> ParseTags(Strip(tags_match.group1))
       ELSE EmptyDict

\* lines 89-97: 'path', 'topic', 'subtopic'
PathFields(file_path) ==
    LET path_parts == Split(file_path, "/")
    IN ("path" :> file_path)
       @@ (IF Len(path_parts) >= 2 THEN "topic" :> path_parts[2] ELSE EmptyDict)
       @@ (IF Len(path_parts) >= 3
           THEN "subtopic" :> Join(Slice(path_parts, 3, Len(path_parts) - 1), "/")
           ELSE EmptyDict)

\* a labelled field that is set only when its pattern matches
LabelField(content, label, key) ==
    LET m == LabelSearch(content, label)
    IN IF m.found THEN key :> Strip(m.group1) ELSE EmptyDict

extract_article_info(content, file_path, mod_time, now) ==
    LET title_match == TitleSearch(content, FALSE)
    IN IF ~title_match.found THEN None
       ELSE ("title" :> title_match.group1) @@ ("url" :> title_match.group2)
            @@ LabelField(content, "**Author:**", "author")
            @@ DateFields(content, mod_time, now)
            @@ LabelField(content, "**Added by:**", "added_by")
            @@ LabelField(content, "**Date:**", "pub_date")
            @@ TagFields(content)
            @@ PathFields(file_path)

\* dict.get(key, default)
Get(dict, key, default) == IF key \in DOMAIN dict THEN dict[key] ELSE default

(***************************************************************************)
(* validate_articles.py: validate_article_format                           *)
(***************************************************************************)
\* lines 60-74: one error for each required section whose pattern, searched
\* with re.DOTALL | re.MULTILINE, is not found
SectionPresent(content, section_name) ==
    CASE section_name = "title" -> TitleSearch(content, TRUE).found
      [] section_name = "author" -> LabelSearch(content, "**Author:**").found
      [] section_name = "date" -> LabelSearch(content, "**Date:**").found
      [] section_name = "added_by" -> LabelSearch(content, "**Added by:**").found
      [] section_name = "added_on" -> LabelSearch(content, "**Added on:**").found
      [] section_name = "summary" ->
            BlockSearch(content, <<"Summary">>, "**Summary:**", "**Key Insights:**")
      [] section_name = "key_insights" ->
            BlockSearch(content, <<"Key", " ", "Insights">>, "**Key Insights:**", "**Tags:**")
      [] section_name = "tags" -> TagsSearch(content).found

required_sections ==
    <<"title", "author", "date", "added_by", "added_on", "summary", "key_insights", "tags">>

RECURSIVE MissingSections(_, _)
MissingSections(content, names) ==
    IF Len(names) = 0 THEN <<>>
    ELSE (IF SectionPresent(content, Head(names)) THEN <<>>
          ELSE << <<"Missing or invalid '", Head(names), "' section">> >>)
         \o MissingSections(content, Tail(names))

\* lines 76-82: url.startswith("http")
StartsWithHttp(url) == url # <<>> /\ url[1] = "http://x"

UrlErrors(content) ==
    LET title_match == TitleSearch(content, FALSE)
    IN IF title_match.found /\ ~StartsWithHttp(title_match.group2)
       THEN << <<"Invalid URL format in title: ">> \o title_match.group2 >>
       ELSE <<>>

\* line 90: re.match(r'^\d{4}-\d{2}-\d{2}$', date_str)
DateShape(date_str) ==
    /\ Len(date_str) = 10
    /\ \A i \in {1, 2, 3, 4, 6, 7, 9, 10} : date_str[i] \in Digits
    /\ date_str[5] = "-"
    /\ date_str[8] = "-"

\* lines 84-91, for one of date_patterns
DateErrors(content, label) ==
    LET date_match == LabelSearch(content, label)
        date_str == Strip(date_match.group1)
    IN IF date_match.found /\ ~DateShape(date_str)
       THEN << <<"Invalid date format: ">> \o date_str \o <<". Should be YYYY-MM-DD">> >>
       ELSE <<>>

\* line 97: re.match(r'^(#[\w-]+\s*)+$', tags_str): from position i, in
\* state "start" (a '#' must come), "hash" (a word character must come),
\* "word" (in the word) or "space" (in the whitespace after it)
RECURSIVE TagsShapeFrom(_, _, _)
TagsShapeFrom(s, i, state) ==
    IF i > Len(s) THEN state \in {"word", "space"}
    ELSE CASE state \in {"start", "space"} /\ s[i] = "#" -> TagsShapeFrom(s, i + 1, "hash")
           [] state \in {"hash", "word"} /\ IsWordChar(s[i]) -> TagsShapeFrom(s, i + 1, "word")
           [] state = "word" /\ s[i] = "#" -> TagsShapeFrom(s, i + 1, "hash")
           [] state \in {"word", "space"} /\ IsSpace(s[i]) -> TagsShapeFrom(s, i + 1, "space")
           [] OTHER -> FALSE

TagsShape(tags_str) == TagsShapeFrom(tags_str, 1, "start")

\* lines 93-98
TagErrors(content) ==
    LET tags_match == TagsSearch(content)
        tags_str == Strip(tags_match.group1)
    IN IF tags_match.found /\ ~TagsShape(tags_str)
       THEN << <<"Invalid tags format: ">> \o tags_str
               \o <<". Tags should be space-separated and start with #">> >>
       ELSE <<>>

validate_article_format(content) ==
    MissingSections(content, required_sections)
    \o UrlErrors(content)
    \o DateErrors(content, "**Date:**")
    \o DateErrors(content, "**Added on:**")
    \o TagErrors(content)

(***************************************************************************)
(* One document, seen by both scripts                                      *)
(***************************************************************************)
\* a variable no script of the specification at hand uses
Unused == "unused"

\* the documents: one choice for each part, in the template's order
TitleParts ==
    {<<"#", " ", "[", "T", "]", "(", "http://x", ")", "\n">>,
     <<"#", " ", "[", "T", "]", "(", "ftp://x", ")", "\n">>,
     <<"#", " ", "Notes", "\n", "[", "T", "]", "(", "http://x", ")", "\n">>,
     <<"[", "T", "]", "(", "http://x", ")", "\n">>}

AuthorParts == {<<"**Author:**", " ", "alice", "\n">>, <<>>}

DateParts ==
    {<<"**Date:**", " ", "2", "0", "2", "4", "-", "0", "1", "-", "0", "1", "\n">>, <<>>}

AddedByParts == {<<"**Added by:**", " ", "bob", " ", "\n">>, <<>>}

AddedOnValues ==
    {<<"2", "0", "2", "4", "-", "0", "1", "-", "1", "5">>,
     <<"2", "0", "2", "4", "-", "1", "3", "-", "4", "5">>,
     <<"2", "0", "2", "4", "-", "0", "2", "-", "3", "0">>,
     <<"2", "0", "2", "4", "-", "1", "-", "5">>,
     <<"Jan", " ", "5">>}

AddedOnParts ==
    {<<"**Added on:**", " ">> \o v \o <<"\n">> : v \in AddedOnValues} \cup {<<>>}

BodyParts ==
    {<<"#", "#", " ", "Summary", "\n", "s", "\n",
       "#", "#", " ", "Key", " ", "Insights", "\n", "k", "\n">>,
     <<"**Summary:**", " ", "s", "\n", "**Key Insights:**", " ", "k", "\n">>,
     <<"s", "\n">>}

TagsParts ==
    {<<"**Tags:**", " ", "#", "golang", " ", "#", "rust", "\n">>,
     <<"**Tags:**", " ", "golang", " ", "rust">>,
     <<"**Tags:**", " ", "x", " ", "#", "golang", "\n">>,
     <<"**Tags:**", " ", "\n">>,
     <<>>}

Documents ==
    {t \o au \o d \o by \o on \o body \o tg :
        t \in TitleParts, au \in AuthorParts, d \in DateParts, by \in AddedByParts,
        on \in AddedOnParts, body \in BodyParts, tg \in TagsParts}

\* the paths 'find . -type f -name "*.md"' prints, one to four segments deep
CatalogPaths ==
    {<<".", "/", "a", ".md">>,
     <<".", "/", "t1", "/", "a", ".md">>,
     <<".", "/", "t1", "/", "t2", "/", "a", ".md">>,
     <<".", "/", "t1", "/", "t2", "/", "t3", "/", "a", ".md">>}

\* the file's modification time and the time of the run
DocMtime == [y |-> 2025, m |-> 3, d |-> 9, t |-> 2]

\* the years formatted for one document have four digits, which every C
\* library writes alike
DocPadsYear == TRUE

DocNow == [y |-> 2026, m |-> 10, d |-> 30, t |-> 5]

InitDoc ==
    /\ pc = "start"
    /\ doc \in Documents
    /\ doc_path \in CatalogPaths
    /\ record = None
    /\ verdict = <<>>
    /\ clock = DocNow
    /\ readme = Unused /\ sections = Unused /\ outcome = Unused /\ written = Unused
    /\ idx = Unused /\ collected = Unused /\ stats = Unused
    /\ changed_files = Unused /\ article_files = Unused /\ error_count = Unused
    /\ reports = Unused /\ exit_code = Unused /\ tree = Unused
    /\ pads_year = DocPadsYear

\* update-readme.py reads the document
Extract ==
    /\ pc \in {"start", "validated"}
    /\ pc' = IF pc = "start" THEN "extracted" ELSE "both"
    /\ record' = extract_article_info(doc, doc_path, DocMtime, clock)
    /\ UNCHANGED <<tree, pads_year, doc, doc_path, verdict, readme, sections, outcome, written,
                   idx, collected, stats, clock, changed_files, article_files,
                   error_count, reports, exit_code>>

\* validate_articles.py reads the document
Validate ==
    /\ pc \in {"start", "extracted"}
    /\ pc' = IF pc = "start" THEN "validated" ELSE "both"
    /\ verdict' = validate_article_format(doc)
    /\ UNCHANGED <<tree, pads_year, doc, doc_path, record, readme, sections, outcome, written,
                   idx, collected, stats, clock, changed_files, article_files,
                   error_count, reports, exit_code>>

NextDoc == Extract \/ Validate

SpecDoc == InitDoc /\ [][NextDoc]_vars

(***************************************************************************)
(* update-readme.py: format_recent_articles_section                        *)
(***************************************************************************)
\* lines 108-126: the entry of one article
FormatArticle(a) ==
    LET topic_path == Get(a, "topic", <<>>)
        subtopic == Get(a, "subtopic", <<>>)
        full_topic == IF subtopic # <<>> THEN topic_path \o <<"/">> \o subtopic
                      ELSE topic_path
        Line(label, value) == <<label, " ">> \o value \o <<" ", " ", "\n">>
        HashTag(tag) == <<"#">> \o tag
    IN <<"#", "#", "#", " ", "[">> \o a.title \o <<"]", "(">> \o a.url
           \o <<")", "\n", "\n">>
       \o (IF "author" \in DOMAIN a THEN Line("**Author:**", a.author) ELSE <<>>)
       \o (IF "pub_date" \in DOMAIN a THEN Line("**Date:**", a.pub_date) ELSE <<>>)
       \o (IF "added_by" \in DOMAIN a THEN Line("**Added by:**", a.added_by) ELSE <<>>)
       \o Line("**Added on:**", a.added_on)
       \o Line("**Category:**", full_topic)
       \o (IF "tags" \in DOMAIN a /\ a.tags # <<>>
           THEN Line("**Tags:**",
                     Join([i \in 1..Len(a.tags) |-> HashTag(a.tags[i])], " "))
           ELSE <<>>)
       \o <<"\n">>

RECURSIVE FormatArticles(_)
FormatArticles(list) ==
    IF Len(list) = 0 THEN <<>> ELSE FormatArticle(Head(list)) \o FormatArticles(Tail(list))

format_recent_articles_section(list) ==
    IF list = <<>>
    THEN <<RECENT_ARTICLES_MARKER, "\n", "\n", "No articles added yet.">>
    ELSE <<RECENT_ARTICLES_MARKER, "\n", "\n">> \o FormatArticles(list)

(***************************************************************************)
(* update-readme.py: generate_statistics                                   *)
(***************************************************************************)
\* a variant that is not stable: items with equal counts come out reversed
SortByCountReversed(d) ==
    LET n == Len(d)
        Position(i) ==
            1 + Cardinality({j \in 1..n : d[j].count > d[i].count})
              + Cardinality({j \in (i + 1)..n : d[j].count = d[i].count})
    IN [p \in 1..n |-> d[CHOOSE i \in 1..n : Position(i) = p]]

\* sorted(items, key=lambda x: x[1], reverse=True): descending by count,
\* and stable (items with equal counts keep their order)
SortByCount(d) ==
    LET n == Len(d)
        Position(i) ==
            1 + Cardinality({j \in 1..n : d[j].count > d[i].count})
              + Cardinality({j \in 1..(i - 1) : d[j].count = d[i].count})
    IN [p \in 1..n |-> d[CHOOSE i \in 1..n : Position(i) = p]]

\* articles.sort(key=lambda x: x['date_obj'], reverse=True): newest first,
\* and stable
SortByDate(list) ==
    LET n == Len(list)
        Position(i) ==
            1 + Cardinality({j \in 1..n : DtLess(list[i].date_obj, list[j].date_obj)})
              + Cardinality({j \in 1..(i - 1) : list[j].date_obj = list[i].date_obj})
    IN [p \in 1..n |-> list[CHOOSE i \in 1..n : Position(i) = p]]

\* seq[:n]
Take(s, n) == Slice(s, 1, IF Len(s) < n THEN Len(s) ELSE n)

\* a defaultdict(int), as its items in insertion order: d[key] += 1
Increment(d, key) ==
    IF \E i \in 1..Len(d) : d[i].key = key
    THEN [i \in 1..Len(d) |->
            IF d[i].key = key THEN [key |-> key, count |-> d[i].count + 1] ELSE d[i]]
    ELSE Append(d, [key |-> key, count |-> 1])

\* the dict after 'd[key] += 1' for each key of the sequence, in order
RECURSIVE CountAll(_)
CountAll(keys) ==
    IF Len(keys) = 0 THEN <<>>
    ELSE Increment(CountAll(SubSeq(keys, 1, Len(keys) - 1)), keys[Len(keys)])

\* the tags of all articles, in the order lines 140-151 visit them
RECURSIVE AllTags(_)
AllTags(list) ==
    IF Len(list) = 0 THEN <<>> ELSE Get(Head(list), "tags", <<>>) \o AllTags(Tail(list))

\* max([a['date_obj'] for a in articles])
RECURSIVE MaxDate(_)
MaxDate(list) ==
    IF Len(list) = 1 THEN list[1].date_obj
    ELSE LET best == MaxDate(SubSeq(list, 1, Len(list) - 1))
         IN IF DtLess(best, list[Len(list)].date_obj) THEN list[Len(list)].date_obj
            ELSE best

\* line 134
LatestUpdate(list) == IF Len(list) > 0 THEN StrfDate(MaxDate(list)) ELSE <<"N/A">>

\* lines 140-143 and 160
TopTopics(list) ==
    Take(SortByCount(
            CountAll([i \in 1..Len(list) |-> Get(list[i], "topic", <<"Uncategorized">>)])),
         TopTopicsCount)

\* lines 145-147 and 166
TopContributors(list) ==
    Take(SortByCount(
            CountAll([i \in 1..Len(list) |-> Get(list[i], "added_by", <<"Unknown">>)])),
         TopContributorsCount)

\* lines 149-151 and 172
TopTags(list) == Take(SortByCount(
            CountAll(AllTags(list))), TopTagsCount)

\* the lines "- {prefix}{key}: {count} {unit}\n" of one ranked list
RECURSIVE RankLines(_, _, _)
RankLines(top, prefix, unit) ==
    IF Len(top) = 0 THEN <<>>
    ELSE <<"-", " ">> \o prefix \o Head(top).key \o <<":", " ">>
         \o IntToStr(Head(top).count) \o <<" ", unit, "\n">>
         \o RankLines(Tail(top), prefix, unit)

\* the locals of generate_statistics the section is built from
Statistics(list) ==
    [total_articles |-> Len(list),
     latest_update |-> LatestUpdate(list),
     top_topics |-> TopTopics(list),
     top_contributors |-> TopContributors(list),
     top_tags |-> TopTags(list)]

\* lines 153-176
generate_statistics(list) ==
    LET s == Statistics(list)
    IN <<STATISTICS_MARKER, "\n", "\n">>
       \o <<"-", " ", "**Total Articles:**", " ">> \o IntToStr(s.total_articles) \o <<"\n">>
       \o <<"-", " ", "**Last Updated:**", " ">> \o s.latest_update \o <<"\n">>
       \o <<"\n", "#", "#", "#", " ", "Top Topics", "\n", "\n">>
       \o RankLines(s.top_topics, <<>>, "articles")
       \o <<"\n", "#", "#", "#", " ", "Top Contributors", "\n", "\n">>
       \o RankLines(s.top_contributors, <<>>, "articles")
       \o <<"\n", "#", "#", "#", " ", "Popular Tags", "\n", "\n">>
       \o RankLines(s.top_tags, <<"#">>, "occurrences")

(***************************************************************************)
(* update-readme.py: update_readme_file                                    *)
(***************************************************************************)
\* (?=^#|$) with re.MULTILINE at position e of the text (the place before
\* text[e]): a line starts there with '#', or a line or the text ends there
AtSectionEnd(text, e) ==
    \/ /\ e <= Len(text)
       /\ e = 1 \/ IsNewline(text[e - 1])
       /\ StartsWithHash(text[e])
    \/ e = Len(text) + 1
    \/ IsNewline(text[e])

\* where the match of marker + '.*?(?=^#|$)' that starts at i ends: '.*?'
\* is lazy, so at the first place after the marker the lookahead accepts
MatchEnd(text, i) ==
    Least({e \in (i + 1)..(Len(text) + 1) : AtSectionEnd(text, e)})

\* re.sub(marker + '.*?(?=^#|$)', replacement, text, flags=DOTALL|MULTILINE)
\* from position i on: every match, left to right, replaced
RECURSIVE SubFrom(_, _, _, _)
SubFrom(marker, replacement, text, i) ==
    LET hits == {k \in i..Len(text) : text[k] = marker}
    IN IF hits = {} THEN Slice(text, i, Len(text))
       ELSE Slice(text, i, Least(hits) - 1) \o replacement
            \o SubFrom(marker, replacement, text, MatchEnd(text, Least(hits)))

ReSub(marker, replacement, text) == SubFrom(marker, replacement, text, 1)

\* lines 183-191: the text written back to README.md
update_readme_file(recent_articles_section, statistics_section, readme_content) ==
    ReSub(STATISTICS_MARKER, statistics_section,
          ReSub(RECENT_ARTICLES_MARKER, recent_articles_section, readme_content))

(***************************************************************************)
(* Regenerating README.md from given blocks                                *)
(***************************************************************************)
\* how long a README.md text of the model is at most, and how many times
\* the regeneration is run on it
MaxReadmeLen == 5

MaxRuns == 2

\* what README.md is made of: the markers, line breaks, a heading sign, text
ReadmeLexemes == {RECENT_ARTICLES_MARKER, STATISTICS_MARKER, "\n", "#", "x"}

ReadmeTexts ==
    UNION {[1..n -> ReadmeLexemes] : n \in 0..MaxReadmeLen}

\* a record of the catalog, as extract_article_info builds it
SampleArticle ==
    extract_article_info(
        <<"#", " ", "[", "T", "]", "(", "http://x", ")", "\n",
          "**Added by:**", " ", "bob", "\n",
          "**Added on:**", " ", "2", "0", "2", "4", "-", "0", "1", "-", "1", "5", "\n",
          "**Tags:**", " ", "#", "golang", "\n">>,
        <<".", "/", "t1", "/", "a", ".md">>, DocMtime, DocNow)

\* the blocks main renders for an empty catalog and for a catalog of one
RenderedSections ==
    {[recent |-> format_recent_articles_section(list), stats |-> generate_statistics(list)] :
        list \in {<<>>, <<SampleArticle>>}}

InitPatch ==
    /\ pc = "patch"
    /\ pads_year \in BOOLEAN
    /\ readme \in ReadmeTexts
    /\ sections \in RenderedSections
    /\ outcome = "none"
    /\ written = <<readme>>
    /\ doc = Unused /\ doc_path = Unused /\ record = Unused /\ verdict = Unused
    /\ idx = Unused /\ collected = Unused /\ stats = Unused /\ clock = Unused
    /\ changed_files = Unused /\ article_files = Unused /\ error_count = Unused
    /\ reports = Unused /\ exit_code = Unused /\ tree = Unused

\* lines 219-221 of main: update_readme_file reads README.md, substitutes
\* both sections and writes the text back; main then reports the update
Regenerate ==
    /\ pc = "patch"
    /\ Len(written) <= MaxRuns
    /\ readme' = update_readme_file(sections.recent, sections.stats, readme)
    /\ written' = Append(written, readme')
    /\ outcome' = "success"
    /\ UNCHANGED <<tree, pads_year, pc, doc, doc_path, record, verdict, sections, idx, collected, stats,
                   clock, changed_files, article_files, error_count, reports, exit_code>>

NextPatch == Regenerate

SpecPatch == InitPatch /\ [][NextPatch]_vars

(***************************************************************************)
(* update-readme.py: find_all_article_files and main                       *)
(***************************************************************************)
\* exclude_paths (line 23 of update-readme.py, line 107 of validate_articles.py)
exclude_paths == << <<"README", ".md">>, <<"CONTRIBUTING", ".md">>, <<"template", "/">> >>

\* any(exclude in f for exclude in exclude_paths)
Excluded(f) == \E n \in 1..Len(exclude_paths) : Contains(f, exclude_paths[n])

\* lines 29-33: the paths find printed, without the excluded ones
RECURSIVE find_all_article_files(_)
find_all_article_files(found) ==
    IF Len(found) = 0 THEN <<>>
    ELSE (IF Len(Head(found)) > 0 /\ ~Excluded(Head(found)) THEN <<Head(found)>> ELSE <<>>)
         \o find_all_article_files(Tail(found))

\* how many documents the catalog tree holds
MaxFiles == 6

\* the catalog tree: the k-th document's directory, name, contributor, tags,
\* day of January it was added on
TopicOf == <<"t1", "t2", "t3", "t4", "t5", "t6", "t6", "t2", "t7">>

NameOf == <<"a", "a", "a", "a", "a", "a", "b", "b", "a">>

UserOf == <<"u1", "u2", "u3", "u4", "u5", "u6", "u6", "u1", "u3">>

FirstTagOf == <<"g1", "g3", "g5", "g7", "g9", "g11", "g11", "g1", "g13">>

SecondTagOf == <<"g2", "g4", "g6", "g8", "g10", "g1", "g12", "g2", "g14">>

DayOf == <<15, 10, 20, 10, 25, 12, 18, 15, 11>>

ListingPath(k) == <<".", "/", TopicOf[k], "/", NameOf[k], ".md">>

\* which document is stored at the path
KeyOf(path) == CHOOSE k \in 1..MaxFiles : ListingPath(k) = path

\* the sequences that list each path of the set once
RECURSIVE Orders(_)
Orders(paths) ==
    IF paths = {} THEN {<<>>}
    ELSE UNION {{<<f>> \o rest : rest \in Orders(paths \ {f})} : f \in paths}

\* the sequence with the path put in at place i
InsertAt(found, i, path) ==
    Slice(found, 1, i - 1) \o <<path>> \o Slice(found, i, Len(found))

\* what 'find . -type f -name "*.md"' can print for a tree that holds the
\* documents and the index document: find lists the files in directory
\* order, which the file system decides
FindOutput ==
    {InsertAt(order, i, <<".", "/", "README", ".md">>) :
        order \in Orders({ListingPath(k) : k \in 1..MaxFiles}),
        i \in 1..(MaxFiles + 1)}

\* what find_all_article_files can return
Listings == {find_all_article_files(found) : found \in FindOutput}

\* os.path.getmtime of the k-th document
MtimeOf(k) == [y |-> 2023 + (k % 2), m |-> 6, d |-> k, t |-> k]

TitleLine == <<"#", " ", "[", "T", "]", "(", "http://x", ")", "\n">>

AddedByLine(k) == <<"**Added by:**", " ", UserOf[k], "\n">>

\* the k-th document written after the template, added in January 2024
CanonicalDoc(k) ==
    TitleLine \o AddedByLine(k)
    \o <<"**Added on:**", " ", "2", "0", "2", "4", "-", "0", "1", "-">>
    \o Pad2(DayOf[k]) \o <<"\n">>
    \o <<"**Tags:**", " ", "#", FirstTagOf[k], " ", "#", SecondTagOf[k], "\n">>

\* the k-th document with a date of the year 999
EarlyDoc(k) ==
    TitleLine \o AddedByLine(k)
    \o <<"**Added on:**", " ", "0", "9", "9", "9", "-", "0", "1", "-">>
    \o Pad2(DayOf[k]) \o <<"\n">>
    \o <<"**Tags:**", " ", "#", FirstTagOf[k], "\n">>

\* the k-th document written loosely: a date that is no date and no
\* contributor; no 'Added on' line and tags without '#'; a date without
\* leading zeros
IrregularDoc(k) ==
    CASE k % 3 = 2 ->
            TitleLine
            \o <<"**Added on:**", " ", "2", "0", "2", "4", "-", "1", "3", "-", "4", "5", "\n">>
      [] k % 3 = 0 ->
            TitleLine \o AddedByLine(k) \o <<"**Tags:**", " ", "golang", " ", "rust", "\n">>
      [] OTHER ->
            TitleLine \o AddedByLine(k)
            \o <<"**Added on:**", " ", "2", "0", "2", "4", "-", "1", "-", "5", "\n">>
            \o <<"**Tags:**", " ", "#", "golang", "\n">>

\* a markdown file that holds no article
OtherDoc == <<"Notes", "\n">>

\* when a run starts: in January 2024, among the dates of the catalog, or
\* after all of them
EarlyRun == [y |-> 2024, m |-> 1, d |-> 16, t |-> 0]

LateRun == [y |-> 2026, m |-> 10, d |-> 30, t |-> 0]

\* the trees a run finds, the time it starts at and the C library it runs
\* on: every document canonical, every document of the year 999 (on either
\* library), every document loose, no article at all, and a mix
Runs ==
    {[tree |-> [k \in 1..MaxFiles |-> CanonicalDoc(k)], clock |-> EarlyRun,
      pads_year |-> TRUE],
     [tree |-> [k \in 1..MaxFiles |-> EarlyDoc(k)], clock |-> LateRun,
      pads_year |-> TRUE],
     [tree |-> [k \in 1..MaxFiles |-> EarlyDoc(k)], clock |-> LateRun,
      pads_year |-> FALSE],
     [tree |-> [k \in 1..MaxFiles |-> IrregularDoc(k)], clock |-> LateRun,
      pads_year |-> FALSE],
     [tree |-> [k \in 1..MaxFiles |-> OtherDoc], clock |-> LateRun,
      pads_year |-> TRUE],
     [tree |-> [k \in 1..MaxFiles |->
                   CASE k % 4 = 0 -> OtherDoc
                     [] k % 4 = 1 -> CanonicalDoc(k)
                     [] k % 4 = 2 -> IrregularDoc(k)
                     [] OTHER -> EarlyDoc(k)],
      clock |-> EarlyRun, pads_year |-> FALSE]}

MainReadme ==
    <<"#", " ", "x", "\n", "\n",
      RECENT_ARTICLES_MARKER, "\n", "\n", "x", "\n", "\n",
      STATISTICS_MARKER, "\n", "\n", "x", "\n">>

InitMain ==
    /\ pc = "find"
    /\ \E run \in Runs :
          tree = run.tree /\ clock = run.clock /\ pads_year = run.pads_year
    /\ readme = MainReadme
    /\ written = <<readme>>
    /\ sections = [recent |-> <<>>, stats |-> <<>>]
    /\ outcome = "none"
    /\ article_files = <<>>
    /\ idx = 0
    /\ collected = <<>>
    /\ stats = Statistics(<<>>)
    /\ doc = Unused /\ doc_path = Unused /\ record = Unused /\ verdict = Unused
    /\ changed_files = Unused /\ error_count = Unused
    /\ reports = Unused /\ exit_code = Unused

\* line 199: find prints the files in some order
FindFiles ==
    /\ pc = "find"
    /\ article_files' \in Listings
    /\ pc' = "extract"
    /\ UNCHANGED <<tree, pads_year, doc, doc_path, record, verdict, readme, sections, outcome, written,
                   idx, collected, stats, clock, changed_files, error_count, reports,
                   exit_code>>

\* lines 203-206, one iteration
ExtractNext ==
    /\ pc = "extract"
    /\ idx < Len(article_files)
    /\ LET file_path == article_files[idx + 1]
           article_info ==
               extract_article_info(tree[KeyOf(file_path)], file_path,
                                    MtimeOf(KeyOf(file_path)), clock)
       IN collected' = IF article_info # None THEN Append(collected, article_info)
                       ELSE collected
    /\ idx' = idx + 1
    /\ clock' = [clock EXCEPT !.t = @ + 1]
    /\ UNCHANGED <<tree, pads_year, pc, doc, doc_path, record, verdict, readme, sections, outcome, written,
                   stats, changed_files, article_files, error_count, reports, exit_code>>

\* lines 208-221: sort, render both sections, rewrite README.md, report
FinishMain ==
    /\ pc = "extract"
    /\ idx = Len(article_files)
    /\ collected' = SortByDate(collected)
    /\ stats' = Statistics(collected')
    /\ sections' =
          [recent |-> format_recent_articles_section(Take(collected', RECENT_ARTICLES_COUNT)),
           stats |-> generate_statistics(collected')]
    /\ readme' = update_readme_file(sections'.recent, sections'.stats, readme)
    /\ written' = Append(written, readme')
    /\ outcome' = "success"
    /\ pc' = "done"
    /\ UNCHANGED <<tree, pads_year, doc, doc_path, record, verdict, idx, clock, changed_files,
                   article_files, error_count, reports, exit_code>>

NextMain == FindFiles \/ ExtractNext \/ FinishMain

SpecMain == InitMain /\ [][NextMain]_vars

(***************************************************************************)
(* validate_articles.py: main                                              *)
(***************************************************************************)
\* how many files a pull request changes at most
MaxChanged == 3

\* the files a pull request may touch, and their texts
ValidDoc ==
    TitleLine
    \o <<"**Author:**", " ", "alice", "\n">>
    \o <<"**Date:**", " ", "2", "0", "2", "4", "-", "0", "1", "-", "0", "1", "\n">>
    \o <<"**Added by:**", " ", "bob", "\n">>
    \o <<"**Added on:**", " ", "2", "0", "2", "4", "-", "0", "1", "-", "1", "5", "\n">>
    \o <<"#", "#", " ", "Summary", "\n", "s", "\n">>
    \o <<"#", "#", " ", "Key", " ", "Insights", "\n", "k", "\n">>
    \o <<"**Tags:**", " ", "#", "golang", " ", "#", "rust", "\n">>

ChangedPaths ==
    {<<"t1", "/", "a", ".md">>, <<"t1", "/", "b", ".md">>, <<"t2", "/", "a", ".md">>,
     <<"README", ".md">>, <<"template", "/", "a", ".md">>, <<"t1", "/", "x", ".py">>}

FileText(path) ==
    CASE path = <<"t1", "/", "a", ".md">> -> ValidDoc
      [] path = <<"t1", "/", "b", ".md">> ->
            SubSeq(ValidDoc, 1, Len(ValidDoc) - 8) \o <<"**Tags:**", " ", "golang", " ", "rust">>
      [] path = <<"t2", "/", "a", ".md">> ->
            <<"#", " ", "[", "T", "]", "(", "ftp://x", ")", "\n",
              "**Added on:**", " ", "Jan", " ", "5", "\n">>
      [] OTHER -> OtherDoc

\* line 108: the changed markdown files that are not excluded
RECURSIVE ArticleFiles(_)
ArticleFiles(changed) ==
    IF Len(changed) = 0 THEN <<>>
    ELSE (IF EndsWith(Head(changed), <<".md">>) /\ ~Excluded(Head(changed))
          THEN <<Head(changed)>> ELSE <<>>)
         \o ArticleFiles(Tail(changed))

\* a variant that counts the files with errors
AddOnePerFile(count, errs) == IF Len(errs) > 0 THEN count + 1 ELSE count

\* lines 120-126: error_count after one file's errors
AddErrors(count, errs) == IF Len(errs) > 0 THEN count + Len(errs) ELSE count

\* lines 128-133: main's return value
ExitCode(count) == IF count > 0 THEN 1 ELSE 0

InitValidate ==
    /\ pc = "changed"
    /\ changed_files \in UNION {[1..n -> ChangedPaths] : n \in 0..MaxChanged}
    /\ article_files = <<>>
    /\ idx = 0
    /\ error_count = 0
    /\ reports = <<>>
    /\ exit_code = "running"
    /\ doc = Unused /\ doc_path = Unused /\ record = Unused /\ verdict = Unused
    /\ readme = Unused /\ sections = Unused /\ outcome = Unused /\ written = Unused
    /\ collected = Unused /\ stats = Unused /\ clock = Unused /\ tree = Unused
    /\ pads_year = Unused

\* lines 104-112: no article file among the changed files, return 0
NothingToValidate ==
    /\ pc = "changed"
    /\ Len(ArticleFiles(changed_files)) = 0
    /\ exit_code' = 0
    /\ pc' = "exited"
    /\ UNCHANGED <<tree, pads_year, doc, doc_path, record, verdict, readme, sections, outcome, written,
                   idx, collected, stats, clock, changed_files, article_files,
                   error_count, reports>>

\* lines 104-115: the article files are kept and the loop starts
StartValidate ==
    /\ pc = "changed"
    /\ Len(ArticleFiles(changed_files)) > 0
    /\ article_files' = ArticleFiles(changed_files)
    /\ error_count' = 0
    /\ pc' = "validating"
    /\ UNCHANGED <<tree, pads_year, doc, doc_path, record, verdict, readme, sections, outcome, written,
                   idx, collected, stats, clock, changed_files, reports, exit_code>>

\* lines 116-126, one iteration
ValidateNext ==
    /\ pc = "validating"
    /\ idx < Len(article_files)
    /\ LET errs == validate_article_format(FileText(article_files[idx + 1]))
       IN /\ reports' = Append(reports, [path |-> article_files[idx + 1], errors |-> errs])
          /\ error_count' = AddErrors(error_count, errs)
    /\ idx' = idx + 1
    /\ UNCHANGED <<tree, pads_year, pc, doc, doc_path, record, verdict, readme, sections, outcome, written,
                   collected, stats, clock, changed_files, article_files, exit_code>>

\* lines 128-133
FinishValidate ==
    /\ pc = "validating"
    /\ idx = Len(article_files)
    /\ exit_code' = ExitCode(error_count)
    /\ pc' = "exited"
    /\ UNCHANGED <<tree, pads_year, doc, doc_path, record, verdict, readme, sections, outcome, written,
                   idx, collected, stats, clock, changed_files, article_files,
                   error_count, reports>>

NextValidate == NothingToValidate \/ StartValidate \/ ValidateNext \/ FinishValidate

SpecValidate == InitValidate /\ [][NextValidate]_vars

(***************************************************************************)
(* Properties                                                              *)
(***************************************************************************)
\* how often the marker occurs in the text
Occurrences(text, marker) == Cardinality({i \in 1..Len(text) : text[i] = marker})

\* the index document holds each marker exactly once, as a heading line
OneOfEach(text) ==
    /\ Occurrences(text, RECENT_ARTICLES_MARKER) = 1
    /\ Occurrences(text, STATISTICS_MARKER) = 1
    /\ \A i \in 1..Len(text) :
          text[i] \in {RECENT_ARTICLES_MARKER, STATISTICS_MARKER} =>
              /\ i = 1 \/ IsNewline(text[i - 1])
              /\ i = Len(text) \/ IsNewline(text[i + 1])

\* C1: patching README.md twice with the same two blocks gives the text
\* patching it once gives (for an index document that holds each marker once)
C1_Idempotent ==
    (Len(written) >= 3 /\ OneOfEach(written[1])) => written[3] = written[2]

\* where the section that starts with the marker at i ends: before the next
\* heading line, or at the end of the document
SectionEnd(text, i) ==
    Least({e \in (i + 1)..(Len(text) + 1) :
              \/ e = Len(text) + 1
              \/ IsNewline(text[e - 1]) /\ StartsWithHash(text[e])})

\* the text with the marked section replaced by the block, all else kept
ReplaceSection(marker, block, text) ==
    LET i == Least({k \in 1..Len(text) : text[k] = marker})
    IN Slice(text, 1, i - 1) \o block \o Slice(text, SectionEnd(text, i), Len(text))

\* C2: the patched document is the old one with each marked section (from
\* the marker up to the next heading or the end) replaced by its new block
C2_SectionsReplaced ==
    (Len(written) >= 2 /\ OneOfEach(written[1])) =>
        written[2] = ReplaceSection(STATISTICS_MARKER, sections.stats,
                        ReplaceSection(RECENT_ARTICLES_MARKER, sections.recent, written[1]))

\* C3: when a marker is absent from README.md the run does not end in
\* success and README.md keeps the text it had
C3_MissingMarkerFails ==
    (/\ Len(written) >= 2
     /\ \/ Occurrences(written[1], RECENT_ARTICLES_MARKER) = 0
        \/ Occurrences(written[1], STATISTICS_MARKER) = 0)
    => (written[2] = written[1] /\ outcome # "success")

\* the value of the document's 'Added on' field, <<>> when it has none
AddedOnValue(text) ==
    LET m == LabelSearch(text, "**Added on:**")
    IN IF m.found THEN Strip(m.group1) ELSE <<>>

\* the document is an article whose 'Added on' value has the digit shape of
\* a date and is no calendar date
HasImpossibleDate(text) ==
    /\ TitleSearch(text, FALSE).found
    /\ LabelSearch(text, "**Added on:**").found
    /\ DateShape(AddedOnValue(text))
    /\ ~Strptime(AddedOnValue(text)).ok

\* C4: an 'Added on' value shaped like a date that is no calendar date is
\* kept as display value with the current time as order key by extraction,
\* and validation reports it as an invalid date format
C4_ImpossibleDateRejected ==
    (pc = "both" /\ HasImpossibleDate(doc)) =>
        /\ record # None
        /\ record.added_on = AddedOnValue(doc)
        /\ record.date_obj = clock
        /\ \E n \in 1..Len(verdict) :
              verdict[n] = <<"Invalid date format: ">> \o AddedOnValue(doc)
                           \o <<". Should be YYYY-MM-DD">>

\* the value of the document's Tags line
TagsValue(text) == Strip(TagsSearch(text).group1)

\* the document is an article whose Tags line has a value without any '#'
HasTagsWithoutHash(text) ==
    /\ TitleSearch(text, FALSE).found
    /\ TagsSearch(text).found
    /\ TagsValue(text) # <<>>
    /\ \A i \in 1..Len(TagsValue(text)) : TagsValue(text)[i] # "#"

HasTagsError(errs) ==
    \E n \in 1..Len(errs) : errs[n][1] = "Invalid tags format: "

\* C5 as stated: a Tags value without '#' is an invalid-tags-format error
\* for validation, and extraction parses no tag from it
C5_NoHashNoTags ==
    (pc = "both" /\ HasTagsWithoutHash(doc)) =>
        (HasTagsError(verdict) /\ record.tags = <<>>)

\* C5 as amended: a Tags value without '#' is an invalid-tags-format error
\* for validation, and extraction parses one tag from it, the whole value
C5_NoHashOneTag ==
    (pc = "both" /\ HasTagsWithoutHash(doc)) =>
        (HasTagsError(verdict) /\ record.tags = <<TagsValue(doc)>>)

C5_Witness ==
    /\ pc = "both"
    /\ HasTagsWithoutHash(doc)
    /\ record.tags = << <<"golang", " ", "rust">> >>
    /\ HasTagsError(verdict)

\* the first record whose order key is the maximum
FirstMax(list) ==
    Least({i \in 1..Len(list) :
              \A j \in 1..Len(list) : ~DtLess(list[i].date_obj, list[j].date_obj)})

\* C6: 'Last Updated' is the display string added_on of the first
\* record with the maximum order key, and 'N/A' for an empty catalog
C6_LatestIsDisplayOfMax ==
    pc = "done" =>
        stats.latest_update =
            IF Len(collected) = 0 THEN <<"N/A">>
            ELSE collected[FirstMax(collected)].added_on

\* the categories of one ranked list among the records handed to
\* generate_statistics
TopicKey(a) == Get(a, "topic", <<"Uncategorized">>)

ContributorKey(a) == Get(a, "added_by", <<"Unknown">>)

TagKeys(a) == {a.tags[n] : n \in 1..Len(Get(a, "tags", <<>>))}

TopicsIn(list) == {TopicKey(list[i]) : i \in 1..Len(list)}

ContributorsIn(list) == {ContributorKey(list[i]) : i \in 1..Len(list)}

TagsIn(list) == UNION {TagKeys(list[i]) : i \in 1..Len(list)}

\* for each topic: how many records have it, and the first record that has it
TopicCount(list) ==
    [c \in TopicsIn(list) |-> Cardinality({i \in 1..Len(list) : TopicKey(list[i]) = c})]

TopicFirst(list) ==
    [c \in TopicsIn(list) |-> Least({i \in 1..Len(list) : TopicKey(list[i]) = c})]

ContributorCount(list) ==
    [c \in ContributorsIn(list) |->
        Cardinality({i \in 1..Len(list) : ContributorKey(list[i]) = c})]

ContributorFirst(list) ==
    [c \in ContributorsIn(list) |->
        Least({i \in 1..Len(list) : ContributorKey(list[i]) = c})]

\* for each tag: how often it occurs (once for each place in a Tags line)
TagCount(list) ==
    [c \in TagsIn(list) |->
        Cardinality({p \in (1..Len(list)) \X (1..TopTagsCount + Len(AllTags(list))) :
                        /\ p[2] <= Len(Get(list[p[1]], "tags", <<>>))
                        /\ list[p[1]].tags[p[2]] = c})]

TagFirst(list) ==
    [c \in TagsIn(list) |-> Least({i \in 1..Len(list) : c \in TagKeys(list[i])})]

\* the ranked list 'top' is right for the counts: it has the n first places
\* of the ranking, counts do not increase along it, of two categories with
\* equal counts the one first seen in an earlier record comes first, and no
\* category is left out that ranks before one that is in it
RankedRight(top, n, count, first) ==
    LET cats == DOMAIN count
        Before(a, b) ==
            count[a] > count[b] \/ (count[a] = count[b] /\ first[a] < first[b])
        Listed == {top[i].key : i \in 1..Len(top)}
    IN /\ Len(top) = IF Cardinality(cats) < n THEN Cardinality(cats) ELSE n
       /\ Cardinality(Listed) = Len(top)
       /\ \A i \in 1..Len(top) : top[i].key \in cats /\ top[i].count = count[top[i].key]
       /\ \A i, j \in 1..Len(top) : i < j => top[i].count >= top[j].count
       /\ \A i, j \in 1..Len(top) : Before(top[i].key, top[j].key) => i < j
       /\ \A c \in cats \ Listed : \A i \in 1..Len(top) : ~Before(c, top[i].key)

\* C7: each of the three ranked lists (topics top 5, contributors top 5,
\* tags top 10) is in non-increasing count order, ties go to the category
\* whose first record comes earlier in the sequence handed to
\* generate_statistics, and truncation keeps the first places
C7_RankingStable ==
    pc = "done" =>
        /\ RankedRight(stats.top_topics, 5, TopicCount(collected), TopicFirst(collected))
        /\ RankedRight(stats.top_contributors, 5,
                       ContributorCount(collected), ContributorFirst(collected))
        /\ RankedRight(stats.top_tags, 10, TagCount(collected), TagFirst(collected))

C7_Witness ==
    /\ pc = "done"
    /\ Cardinality(TopicsIn(collected)) > 5
    /\ Cardinality(ContributorsIn(collected)) > 5
    /\ Cardinality(TagsIn(collected)) > 10
    /\ \E i, j \in 1..Len(stats.top_topics) :
          i < j /\ stats.top_topics[i].count = stats.top_topics[j].count
    /\ \E i, j \in 1..Len(stats.top_contributors) :
          i < j /\ stats.top_contributors[i].count = stats.top_contributors[j].count
    /\ stats.top_tags[1].count > stats.top_tags[10].count

\* the sum of the lengths of the reported error lists
RECURSIVE TotalErrors(_)
TotalErrors(list) ==
    IF Len(list) = 0 THEN 0 ELSE Len(Head(list).errors) + TotalErrors(Tail(list))

\* C8: the validation run reports on every candidate document, whatever the
\* earlier ones held; its total is the sum of the lengths of the error
\* lists; it exits with 1 when the total is nonzero and with 0 otherwise
C8_AllCheckedTotalDecidesExit ==
    pc = "exited" =>
        LET candidates == ArticleFiles(changed_files)
        IN /\ Len(reports) = Len(candidates)
           /\ \A i \in 1..Len(reports) :
                 /\ reports[i].path = candidates[i]
                 /\ reports[i].errors = validate_article_format(FileText(candidates[i]))
           /\ error_count = TotalErrors(reports)
           /\ exit_code \in {0, 1}
           /\ exit_code = 1 <=> error_count > 0

C8_Witness ==
    /\ pc = "exited"
    /\ Len(reports) = 3
    /\ Len(reports[1].errors) > 1
    /\ Len(reports[2].errors) = 0
    /\ Len(reports[3].errors) = 1
    /\ error_count = Len(reports[1].errors) + 1
    /\ exit_code = 1

\* C9: topic is segment 1 of the split path exactly when two segments follow
\* the root segment, subtopic is present exactly when more than two do
C9_PathDecomposition ==
    (pc \in {"extracted", "both"} /\ record # None) =>
        LET segments == Split(doc_path, "/")
            depth == Len(segments) - 1
        IN /\ "topic" \in DOMAIN record <=> depth >= 2
           /\ "topic" \in DOMAIN record => record.topic = segments[2]
           /\ "subtopic" \in DOMAIN record <=> depth > 2

\* C10: a document validation finds no error in is an article for
\* extraction, with a url that begins with http
C10_ValidIsArticle ==
    (pc = "both" /\ Len(verdict) = 0) =>
        (record # None /\ record.url[1] = "http://x")
=============================================================================
